---- MODULE Spec2Model ----
(***************************************************************************)
(* Recording session manager of src-tauri/src/lib.rs: the BackendState     *)
(* behind one tokio Mutex, the hotkey handlers spawned on the async        *)
(* runtime, the startup thread, the task that stores the worker's stdin    *)
(* and the thread that reads the worker's stdout.                          *)
(***************************************************************************)
EXTENDS Naturals, Sequences, FiniteSets, TLC

\* Bounds of the model.
MaxEdges == 3      \* hotkey edges delivered by the OS callback
MaxLines == 1      \* lines the worker writes to its stdout
MaxAudio == 2      \* audio_level lines of the end-to-end scenario

VARIABLES
    is_recording,     \* BackendState.is_recording
    recording_start,  \* BackendState.recording_start: "None" | "Some"
    daemon_stdin,     \* BackendState.daemon_stdin: "None" | "Some"
    config,           \* BackendState.config
    model_loaded,     \* BackendState.model_loaded
    guard,            \* the Mutex between steps: "free" | "release_task" (held while it sleeps)
    worker,           \* child process: "unstarted" | "alive" | "dead"
    stdout_pipe,      \* lines written by the worker and not yet read
    lines_emitted,    \* number of lines the worker has written
    skipped,          \* number of lines the reader read without handling any field
    reader,           \* stdout reader thread: "unstarted" | "running" | "ended"
    store_task,       \* task storing stdin: "none" | "pending" | "done"
    startup,          \* startup thread: "init" | "sleep" | "load" | "done"
    startup_config,   \* the startup thread's clone of the config
    pending,          \* edges whose handler task is spawned and has not locked yet, in delivery order
    delivered,        \* number of edges the hotkey callback has delivered
    presses_since_release, \* press handlers that locked since a release handler last did
    out,              \* observable outputs in order: commands written, UI notifications
    overlay           \* overlay window visible

session == <<is_recording, recording_start, daemon_stdin, config, model_loaded>>

vars == <<is_recording, recording_start, daemon_stdin, config, model_loaded,
          guard, worker, stdout_pipe, lines_emitted, skipped, reader, store_task,
          startup, startup_config, pending, delivered,
          presses_since_release, out, overlay>>

----------------------------------------------------------------------------
\* Config (the fields the session manager reads).

ConfigDefault ==
    [device_id |-> "null", model |-> "nemo-parakeet-tdt-0.6b-v3", output_mode |-> "clipboard"]

ConfigSaved ==
    [device_id |-> "3", model |-> "whisper-small", output_mode |-> "type"]

\* The startup thread's `config` local before it is assigned and after it is dropped.
NoConfig == [device_id |-> "", model |-> "", output_mode |-> ""]

\* The configurations the settings window saves.
Configs == {ConfigSaved}

----------------------------------------------------------------------------
\* JSON values of a worker line, by type: as_f64 / as_str / as_bool succeed
\* only on the matching type.

Absent == [t |-> "absent", v |-> ""]
Num(x) == [t |-> "num", v |-> x]
Str(x) == [t |-> "str", v |-> x]
Bool(x) == [t |-> "bool", v |-> x]

Line(js, al, st, tx, er, cp, ty) ==
    [json |-> js, audio_level |-> al, status |-> st, text |-> tx, error |-> er,
     copied |-> cp, typed |-> ty]

LineAudio == Line(TRUE, Num("0.4"), Absent, Absent, Absent, Absent, Absent)
LineAudioLoud == Line(TRUE, Num("0.9"), Absent, Absent, Absent, Absent, Absent)
LineModelLoaded == Line(TRUE, Absent, Str("model_loaded"), Absent, Absent, Absent, Absent)
LineText == Line(TRUE, Absent, Absent, Str("ship it"), Absent, Bool("true"), Bool("false"))
LineTextTyped == Line(TRUE, Absent, Absent, Str("hello"), Absent, Bool("false"), Bool("true"))
LineError == Line(TRUE, Absent, Absent, Absent, Str("no speech"), Absent, Absent)
LineNotJson == Line(FALSE, Absent, Absent, Absent, Absent, Absent, Absent)

\* Lines the worker writes while a session runs: a level, and the two
\* terminal events.
WorkerLines == {LineAudio, LineText, LineError}

----------------------------------------------------------------------------
\* Observable outputs.

Cmd(name, arg, ok) == [kind |-> "cmd", name |-> name, payload |-> <<arg>>, ok |-> ok]
Ui(name, payload) == [kind |-> "ui", name |-> name, payload |-> payload, ok |-> TRUE]

\* send_daemon_command: writeln + flush on the stored ChildStdin; the write
\* fails (returns false, logged) once the worker has exited.
send_daemon_command(name, arg) == <<Cmd(name, arg, worker = "alive")>>

\* Variant: the command is written whether or not a sink is stored.
SendIfSome_Unchecked(name, arg) == send_daemon_command(name, arg)

\* `if let Some(ref mut stdin) = state.daemon_stdin { send } else { log }`
SendIfSome(name, arg) ==
    IF daemon_stdin = "Some" THEN send_daemon_command(name, arg) ELSE <<>>

AsBoolOrFalse(j) == IF j.t = "bool" THEN j.v ELSE "false"

\* A line none of whose fields the reader handles: it is not JSON, or every
\* recognized field is missing or of another type than the one looked up.
Malformed(line) ==
    \/ ~line.json
    \/ /\ line.audio_level.t # "num"
       /\ line.status.t # "str"
       /\ line.text.t # "str"
       /\ line.error.t # "str"

\* Variant: the four lookups are an if / else-if chain, so only the first
\* field found is handled.
Decode_FirstMatch(line) ==
    IF ~line.json THEN <<>>
    ELSE IF line.audio_level.t = "num"
      THEN <<Ui("audio_level", <<line.audio_level.v>>)>>
    ELSE IF line.status.t = "str" /\ line.status.v = "model_loaded"
      THEN <<Ui("model_ready", <<>>)>>
    ELSE IF line.text.t = "str"
      THEN <<Ui("transcription_done",
                <<"text", line.text.v, AsBoolOrFalse(line.copied),
                  AsBoolOrFalse(line.typed)>>)>>
    ELSE IF line.error.t = "str"
      THEN <<Ui("transcription_done", <<"text", "", "error", line.error.v>>)>>
    ELSE <<>>

\* The reader thread's handling of one line: the notifications it emits.
Decode(line) ==
    IF ~line.json THEN <<>>
    ELSE (IF line.audio_level.t = "num"
            THEN <<Ui("audio_level", <<line.audio_level.v>>)>> ELSE <<>>)
      \o (IF line.status.t = "str" /\ line.status.v = "model_loaded"
            THEN <<Ui("model_ready", <<>>)>> ELSE <<>>)
      \o (IF line.text.t = "str"
            THEN <<Ui("transcription_done",
                      <<"text", line.text.v, AsBoolOrFalse(line.copied),
                        AsBoolOrFalse(line.typed)>>)>>
            ELSE <<>>)
      \o (IF line.error.t = "str"
            THEN <<Ui("transcription_done", <<"text", "", "error", line.error.v>>)>>
            ELSE <<>>)

----------------------------------------------------------------------------
Init ==
    /\ is_recording = FALSE
    /\ recording_start = "None"
    /\ daemon_stdin = "None"
    /\ config = ConfigDefault
    /\ model_loaded = FALSE
    /\ guard = "free"
    /\ worker = "unstarted"
    /\ stdout_pipe = <<>>
    /\ lines_emitted = 0
    /\ skipped = 0
    /\ reader = "unstarted"
    /\ store_task = "none"
    /\ startup = "init"
    /\ startup_config = NoConfig
    /\ pending = <<>>
    /\ delivered = 0
    /\ presses_since_release = 0
    /\ out = <<>>
    /\ overlay = FALSE

----------------------------------------------------------------------------
\* Startup thread (run) and start_daemon.

\* Variant: start_daemon is called again once the worker has died.
start_daemon_Respawn(outcome) ==
    /\ startup = "init" \/ worker = "dead"
    /\ IF outcome = "ok"
         THEN /\ worker' = "alive"
              /\ reader' = "running"
              /\ store_task' = "pending"
              /\ startup' = "sleep"
         ELSE /\ startup' = "done"
              /\ UNCHANGED <<worker, reader, store_task>>
    /\ UNCHANGED <<session, guard, stdout_pipe, lines_emitted, skipped, startup_config,
                   pending, delivered, presses_since_release, out, overlay>>

\* start_daemon: resolve the executable and spawn it; on success start the
\* reader thread and spawn the task that stores stdin.
start_daemon(outcome) ==
    /\ startup = "init"
    /\ IF outcome = "ok"
         THEN /\ worker' = "alive"
              /\ reader' = "running"
              /\ store_task' = "pending"
              /\ startup' = "sleep"
         ELSE /\ startup' = "done"
              /\ UNCHANGED <<worker, reader, store_task>>
    /\ UNCHANGED <<session, guard, stdout_pipe, lines_emitted, skipped, startup_config,
                   pending, delivered, presses_since_release, out, overlay>>

\* The spawned task of start_daemon: state.daemon_stdin = stdin.
StoreStdin ==
    /\ store_task = "pending"
    /\ guard = "free"
    /\ daemon_stdin' = "Some"
    /\ store_task' = "done"
    /\ UNCHANGED <<is_recording, recording_start, config, model_loaded, guard,
                   worker, stdout_pipe, lines_emitted, skipped, reader, startup,
                   startup_config, pending, delivered, presses_since_release, out, overlay>>

\* After the 500 ms sleep: lock, clone the config, unlock.
StartupReadConfig ==
    /\ startup = "sleep"
    /\ guard = "free"
    /\ startup_config' = config
    /\ startup' = "load"
    /\ UNCHANGED <<session, guard, worker, stdout_pipe, lines_emitted, skipped, reader,
                   store_task, pending, delivered, presses_since_release, out, overlay>>

\* Second lock: send load_model if a sink is stored, and set model_loaded.
StartupLoadModel ==
    /\ startup = "load"
    /\ guard = "free"
    /\ out' = out \o SendIfSome("load_model", startup_config.model)
    /\ model_loaded' = (IF daemon_stdin = "Some" THEN TRUE ELSE model_loaded)
    /\ startup' = "done"
    /\ startup_config' = NoConfig
    /\ UNCHANGED <<is_recording, recording_start, daemon_stdin, config, guard,
                   worker, stdout_pipe, lines_emitted, skipped, reader, store_task,
                   pending, delivered, presses_since_release, overlay>>

----------------------------------------------------------------------------
\* Hotkey callback and the handler tasks it spawns.

\* on_shortcut callback: spawn the handler task of the edge.
HotkeyEdge(e) ==
    /\ pending' = Append(pending, e)
    /\ delivered' = delivered + 1
    /\ UNCHANGED <<session, guard, worker, stdout_pipe, lines_emitted, skipped, reader,
                   store_task, startup, startup_config, presses_since_release,
                   out, overlay>>

\* The pending tasks without the i-th.
Remove(q, i) == SubSeq(q, 1, i - 1) \o SubSeq(q, i + 1, Len(q))

\* Pressed, already recording: return.
PressNoop ==
    UNCHANGED <<session, guard, out, overlay>>

\* Variant: without a sink the handler returns after logging "Daemon not
\* running!", before the overlay is shown and recording_started is emitted.
PressBegin_Silent ==
    /\ is_recording' = TRUE
    /\ recording_start' = "Some"
    /\ IF daemon_stdin = "Some"
         THEN /\ out' = out \o send_daemon_command("start_recording", config.device_id)
                            \o <<Ui("recording_started", <<>>)>>
              /\ overlay' = TRUE
         ELSE UNCHANGED <<out, overlay>>
    /\ UNCHANGED <<daemon_stdin, config, model_loaded, guard>>

\* Pressed, not recording: begin a recording.
PressBegin ==
    /\ is_recording' = TRUE
    /\ recording_start' = "Some"
    /\ out' = out \o SendIfSome("start_recording", config.device_id)
                  \o <<Ui("recording_started", <<>>)>>
    /\ overlay' = TRUE
    /\ UNCHANGED <<daemon_stdin, config, model_loaded, guard>>

\* Variant: the `if state.is_recording { return; }` check is missing.
PressBody_NoCheck == PressBegin

PressBody == IF is_recording THEN PressNoop ELSE PressBegin

\* The task spawned for ShortcutState::Pressed, from lock to return.
PressHandler(i) ==
    /\ pending[i] = "press"
    /\ guard = "free"
    /\ pending' = Remove(pending, i)
    /\ presses_since_release' = presses_since_release + 1
    /\ PressBody
    /\ UNCHANGED <<worker, stdout_pipe, lines_emitted, skipped, reader, store_task,
                   startup, startup_config, delivered>>

\* Released, not recording: return.
ReleaseNoop ==
    UNCHANGED <<session, guard, out, overlay>>

\* Variant: transcription_started is emitted before recording_stopped.
ReleaseEnd_StartedFirst ==
    /\ is_recording' = FALSE
    /\ IF daemon_stdin = "Some"
         THEN /\ out' = out \o <<Ui("transcription_started", <<>>),
                                 Ui("recording_stopped", <<"duration">>)>>
                            \o send_daemon_command("stop_and_transcribe", config.output_mode)
              /\ guard' = guard
         ELSE /\ out' = Append(out, Ui("recording_stopped", <<"duration">>))
              /\ guard' = "release_task"
    /\ UNCHANGED <<recording_start, daemon_stdin, config, model_loaded, overlay>>

\* Variant: transcription_started is emitted before the sink is looked at.
ReleaseEnd_AlwaysStarted ==
    /\ is_recording' = FALSE
    /\ IF daemon_stdin = "Some"
         THEN /\ out' = out \o <<Ui("recording_stopped", <<"duration">>),
                                 Ui("transcription_started", <<>>)>>
                            \o send_daemon_command("stop_and_transcribe", config.output_mode)
              /\ guard' = guard
         ELSE /\ out' = out \o <<Ui("recording_stopped", <<"duration">>),
                                 Ui("transcription_started", <<>>)>>
              /\ guard' = "release_task"
    /\ UNCHANGED <<recording_start, daemon_stdin, config, model_loaded, overlay>>

\* Released while recording: end the recording; without a sink the task
\* sleeps one second with the MutexGuard alive.
ReleaseEnd ==
    /\ is_recording' = FALSE
    /\ IF daemon_stdin = "Some"
         THEN /\ out' = out \o <<Ui("recording_stopped", <<"duration">>),
                                 Ui("transcription_started", <<>>)>>
                            \o send_daemon_command("stop_and_transcribe", config.output_mode)
              /\ guard' = guard
         ELSE /\ out' = Append(out, Ui("recording_stopped", <<"duration">>))
              /\ guard' = "release_task"
    /\ UNCHANGED <<recording_start, daemon_stdin, config, model_loaded, overlay>>

\* Variant: the `if !state.is_recording { return; }` check is missing.
ReleaseBody_NoCheck == ReleaseEnd

ReleaseBody == IF is_recording THEN ReleaseEnd ELSE ReleaseNoop

\* The task spawned for ShortcutState::Released, from lock to return or sleep.
ReleaseHandler(i) ==
    /\ pending[i] = "release"
    /\ guard = "free"
    /\ pending' = Remove(pending, i)
    /\ presses_since_release' = 0
    /\ ReleaseBody
    /\ UNCHANGED <<worker, stdout_pipe, lines_emitted, skipped, reader, store_task,
                   startup, startup_config, delivered>>

\* Released, no sink: after the sleep, hide the overlay; the MutexGuard is
\* dropped when the task ends.
ReleaseWake ==
    /\ guard = "release_task"
    /\ overlay' = FALSE
    /\ guard' = "free"
    /\ UNCHANGED <<session, worker, stdout_pipe, lines_emitted, skipped, reader, store_task,
                   startup, startup_config, pending, delivered,
                   presses_since_release, out>>

----------------------------------------------------------------------------
\* save_config command: write the file, then lock and replace the config.
\* When the file write fails it returns before the lock and changes nothing.

save_config(c) ==
    /\ c # config
    /\ guard = "free"
    /\ config' = c
    /\ UNCHANGED <<is_recording, recording_start, daemon_stdin, model_loaded, guard,
                   worker, stdout_pipe, lines_emitted, skipped, reader, store_task, startup,
                   startup_config, pending, delivered, presses_since_release, out, overlay>>

----------------------------------------------------------------------------
\* The worker process and the stdout reader thread.

WorkerEmit(line) ==
    /\ worker = "alive"
    /\ stdout_pipe' = Append(stdout_pipe, line)
    /\ lines_emitted' = lines_emitted + 1
    /\ UNCHANGED <<session, guard, worker, skipped, reader, store_task, startup,
                   startup_config, pending, delivered, presses_since_release, out, overlay>>

WorkerExit ==
    /\ worker = "alive"
    /\ worker' = "dead"
    /\ UNCHANGED <<session, guard, stdout_pipe, lines_emitted, skipped, reader, store_task,
                   startup, startup_config, pending, delivered, presses_since_release, out, overlay>>

\* Variant: the loop breaks at a line it cannot use.
ReaderLine_StopsOnMalformed ==
    /\ reader = "running"
    /\ stdout_pipe # <<>>
    /\ out' = out \o Decode(Head(stdout_pipe))
    /\ stdout_pipe' = Tail(stdout_pipe)
    /\ skipped' = IF Malformed(Head(stdout_pipe)) THEN skipped + 1 ELSE skipped
    /\ reader' = IF Malformed(Head(stdout_pipe)) THEN "ended" ELSE reader
    /\ UNCHANGED <<session, guard, worker, lines_emitted, store_task,
                   startup, startup_config, pending, delivered, presses_since_release, overlay>>

\* One iteration of `for line in reader.lines()`: the line is read and every
\* recognized field of it is handled, without the Mutex.
ReaderLine ==
    /\ reader = "running"
    /\ stdout_pipe # <<>>
    /\ out' = out \o Decode(Head(stdout_pipe))
    /\ stdout_pipe' = Tail(stdout_pipe)
    /\ skipped' = IF Malformed(Head(stdout_pipe)) THEN skipped + 1 ELSE skipped
    /\ UNCHANGED <<session, guard, worker, lines_emitted, reader, store_task,
                   startup, startup_config, pending, delivered, presses_since_release, overlay>>

\* End of stream: the loop ends, "Daemon stdout reader ended" is logged.
ReaderEnd ==
    /\ reader = "running"
    /\ stdout_pipe = <<>>
    /\ worker = "dead"
    /\ reader' = "ended"
    /\ UNCHANGED <<session, guard, worker, stdout_pipe, lines_emitted, skipped, store_task,
                   startup, startup_config, pending, delivered, presses_since_release, out, overlay>>

----------------------------------------------------------------------------
\* The threads and tasks of the application.
Program ==
    \/ \E o \in {"ok", "not_found", "spawn_error"} : start_daemon(o)
    \/ StoreStdin
    \/ StartupReadConfig
    \/ StartupLoadModel
    \/ \E i \in 1..Len(pending) : PressHandler(i)
    \/ \E i \in 1..Len(pending) : ReleaseHandler(i)
    \/ ReleaseWake
    \/ ReaderLine
    \/ ReaderEnd

\* The user (hotkey, settings window) and the worker process.
Environment ==
    \/ delivered < MaxEdges /\ \E e \in {"press", "release"} : HotkeyEdge(e)
    \/ \E c \in Configs : save_config(c)
    \/ lines_emitted < MaxLines /\ \E l \in WorkerLines : WorkerEmit(l)
    \/ WorkerExit

Next == Program \/ Environment

Spec == Init /\ [][Next]_vars

StartupThread ==
    \/ \E o \in {"ok", "not_found", "spawn_error"} : start_daemon(o)
    \/ StartupReadConfig
    \/ StartupLoadModel

HandlerTasks ==
    \/ \E i \in 1..Len(pending) : PressHandler(i)
    \/ \E i \in 1..Len(pending) : ReleaseHandler(i)
    \/ ReleaseWake

ReaderThread == ReaderLine \/ ReaderEnd

\* Threads run and the runtime polls every spawned task; the user and the
\* worker are under no obligation.
FairSpec ==
    /\ Spec
    /\ WF_vars(StartupThread)
    /\ WF_vars(StoreStdin)
    /\ WF_vars(HandlerTasks)
    /\ WF_vars(ReaderThread)

----------------------------------------------------------------------------
\* The end-to-end scenario of the spec's section 8: each stimulus arrives
\* once the previous one has been handled.

ScenarioAudioLines == {LineAudio, LineAudioLoud}
ScenarioTextLines == {LineText, LineTextTyped}

Quiet == pending = <<>> /\ stdout_pipe = <<>> /\ guard = "free"

IsDone(e) == e.kind = "ui" /\ e.name = "transcription_done"

ScenarioPress ==
    /\ delivered = 0
    /\ worker = "alive"
    /\ daemon_stdin = "Some"
    /\ HotkeyEdge("press")

ScenarioAudio ==
    /\ delivered = 1
    /\ Quiet
    /\ lines_emitted < MaxAudio
    /\ \E l \in ScenarioAudioLines : WorkerEmit(l)

ScenarioRelease ==
    /\ delivered = 1
    /\ Quiet
    /\ HotkeyEdge("release")

ScenarioText ==
    /\ delivered = 2
    /\ Quiet
    /\ \A k \in 1..Len(out) : ~IsDone(out[k])
    /\ \E l \in ScenarioTextLines : WorkerEmit(l)

ScenarioNext ==
    \/ start_daemon("ok")
    \/ StoreStdin
    \/ StartupReadConfig
    \/ StartupLoadModel
    \/ \E i \in 1..Len(pending) : PressHandler(i)
    \/ \E i \in 1..Len(pending) : ReleaseHandler(i)
    \/ ReaderLine
    \/ ScenarioPress
    \/ ScenarioAudio
    \/ ScenarioRelease
    \/ ScenarioText

ScenarioSpec == Init /\ [][ScenarioNext]_vars

----------------------------------------------------------------------------
\* The reader thread alone, fed every shape of line.

MaxDecodeLines == 2

\* Every combination of the four recognized fields, each one missing, of the
\* type looked up, or (audio_level, text) of another type.
FieldLines ==
    {Line(TRUE, al, st, tx, er, Absent, Absent) :
        al \in {Absent, Num("0.4"), Str("loud")},
        st \in {Absent, Str("model_loaded"), Str("ready")},
        tx \in {Absent, Str("hello"), Num("7")},
        er \in {Absent, Str("no speech")}}

\* status and error of another type, and the values of copied and typed.
OtherLines ==
    {Line(TRUE, Absent, Num("1"), Absent, Absent, Absent, Absent),
     Line(TRUE, Absent, Absent, Absent, Bool("true"), Absent, Absent),
     Line(TRUE, Absent, Num("1"), Str("hello"), Bool("true"), Absent, Absent),
     Line(TRUE, Absent, Absent, Str("hello"), Absent, Str("yes"), Num("1")),
     Line(TRUE, Absent, Absent, Str("hello"), Str("no speech"), Bool("true"), Absent),
     LineText, LineTextTyped, LineNotJson}

DecodeLines == FieldLines \cup OtherLines

DecodeNext ==
    \/ start_daemon("ok")
    \/ lines_emitted < MaxDecodeLines /\ \E l \in DecodeLines : WorkerEmit(l)
    \/ ReaderLine

DecodeSpec == Init /\ [][DecodeNext]_vars

----------------------------------------------------------------------------
\* Observations on the output log and on steps.

RECURSIVE Filter(_, _)
Filter(seq, kind) ==
    IF seq = <<>> THEN <<>>
    ELSE (IF Head(seq).kind = kind THEN <<Head(seq)>> ELSE <<>>) \o Filter(Tail(seq), kind)

\* The UI notifications, and the commands whose write was attempted, in order.
UiLog == Filter(out, "ui")
CmdLog == Filter(out, "cmd")

Count(seq, name) == Cardinality({k \in 1..Len(seq) : seq[k].name = name})

\* A step of a press handler task, of a release handler task (lock to
\* return or sleep), and of the startup thread's load_model block.
PressStep == presses_since_release' = presses_since_release + 1
ReleaseStep == Len(pending') < Len(pending) /\ ~PressStep
LoadStep == startup = "load" /\ startup' = "done"

\* No write to the worker is attempted in the step.
NoWrite == Filter(out', "cmd") = CmdLog
\* No UI notification is emitted in the step.
NoNotify == Filter(out', "ui") = UiLog

\* The UI shows the transcribing state: a transcription_started with no
\* transcription_done after it.
UiTranscribing ==
    \E i \in 1..Len(out) :
        /\ out[i].kind = "ui" /\ out[i].name = "transcription_started"
        /\ \A j \in (i + 1)..Len(out) : ~IsDone(out[j])

\* A stop_and_transcribe was written and no terminal event was handled since.
Pending(o) ==
    \E i \in 1..Len(o) :
        /\ o[i].kind = "cmd" /\ o[i].name = "stop_and_transcribe" /\ o[i].ok
        /\ \A j \in (i + 1)..Len(o) : ~IsDone(o[j])

SessionState(rec, o) ==
    IF rec THEN "Recording" ELSE IF Pending(o) THEN "Transcribing" ELSE "Idle"

----------------------------------------------------------------------------
\* C1: a press handled after another press, with no release handled in
\* between, writes nothing, notifies nothing and leaves the session state
\* unchanged; any press handler writes at most one start_recording and emits
\* at most one recording_started.
C1_IdempotentPress ==
    [][PressStep =>
        /\ Count(out', "start_recording") <= Count(out, "start_recording") + 1
        /\ Count(out', "recording_started") <= Count(out, "recording_started") + 1
        /\ (presses_since_release >= 1 =>
                /\ out' = out
                /\ session' = session)]_vars

\* Two press handlers ran in a row; one recording_started was emitted.
C1_Witness ==
    /\ presses_since_release >= 2
    /\ Count(out, "recording_started") = 1

\* C2: a release handled while not recording writes no command, emits no
\* notification and leaves every field of the session state unchanged.
C2_StrayRelease ==
    [][(ReleaseStep /\ ~is_recording) =>
        /\ NoWrite
        /\ NoNotify
        /\ session' = session
        /\ guard' = guard]_vars

\* An edge was delivered and handled, nothing was ever put out and nothing is
\* recording: the handled edge was a stray release.
C2_Witness ==
    /\ delivered >= 1
    /\ pending = <<>>
    /\ presses_since_release = 0
    /\ out = <<>>
    /\ ~is_recording

\* C3 (as claimed): a press handled while Idle with no sink stored leaves the
\* session Idle and emits no recording_started.
C3_PressWithoutSinkStaysIdle ==
    [][(PressStep /\ ~is_recording /\ daemon_stdin = "None") =>
        /\ is_recording' = FALSE
        /\ recording_start' = recording_start
        /\ Count(out', "recording_started") = Count(out, "recording_started")]_vars

\* C4 (as claimed): once the reader loop has ended, the sink is cleared, so a
\* press handled afterwards attempts no write.
C4_NoWriteAfterReaderEnded ==
    [][(reader = "ended" /\ PressStep) => NoWrite]_vars

\* C5 (as claimed): the UI never stays in the transcribing state: a
\* transcription_started is eventually followed by a transcription_done.
C5_BoundedWait == UiTranscribing ~> ~UiTranscribing

\* C6 (as claimed): handler tasks acquire the guard in the order their edges
\* were delivered: the task that locks is the oldest pending one.
C6_EdgeOrder ==
    [][(PressStep \/ ReleaseStep) => pending' = Tail(pending)]_vars

\* C7 (as claimed): the session state only takes the steps of the transition
\* table: Idle -> Recording, Recording -> Transcribing, Transcribing -> Idle
\* and the forced return to Idle; never Transcribing -> Recording.
TransitionTable ==
    { <<"Idle", "Recording">>, <<"Recording", "Transcribing">>,
      <<"Transcribing", "Idle">>, <<"Recording", "Idle">> }

C7_ValidPath ==
    [][\/ SessionState(is_recording', out') = SessionState(is_recording, out)
       \/ <<SessionState(is_recording, out), SessionState(is_recording', out')>>
             \in TransitionTable]_vars

\* C8: once the scenario (press, N audio_level lines, release, one text line,
\* each handled before the next) has run, the UI has received exactly
\* recording_started, audio_level x N, recording_stopped,
\* transcription_started, transcription_done, and nothing is recording.
ScenarioRan == delivered = 2 /\ Quiet /\ \E k \in 1..Len(out) : IsDone(out[k])

C8_Scenario ==
    ScenarioRan =>
        LET ui == UiLog
            n == lines_emitted - 1
        IN /\ Len(ui) = n + 4
           /\ ui[1] = Ui("recording_started", <<>>)
           /\ \A k \in 2..(n + 1) :
                  \E l \in ScenarioAudioLines : <<ui[k]>> = Decode(l)
           /\ ui[n + 2] = Ui("recording_stopped", <<"duration">>)
           /\ ui[n + 3] = Ui("transcription_started", <<>>)
           /\ \E l \in ScenarioTextLines : <<ui[n + 4]>> = Decode(l)
           /\ ui[n + 4].payload[1] = "text"
           /\ Len(ui[n + 4].payload) = 4
           /\ ~is_recording

\* The scenario ran with the most audio_level lines.
C8_Witness == ScenarioRan /\ lines_emitted = MaxAudio + 1

\* C9 (as claimed): while the worker is alive the sink is stored.
C9_SinkPresentWhileAlive == worker = "alive" => daemon_stdin = "Some"

\* C10: a press handler, a release handler or the startup load_model block
\* that runs with no sink stored attempts no write and either finishes with
\* the guard free or, in the release handler, sleeps and then frees it.
C10_FailSoft ==
    /\ [][((PressStep \/ ReleaseStep \/ LoadStep) /\ daemon_stdin = "None") =>
            /\ NoWrite
            /\ (guard' = "free" \/ (ReleaseStep /\ is_recording))
            /\ (LoadStep => startup' = "done" /\ model_loaded' = model_loaded)]_vars
    /\ [](guard = "release_task" => ENABLED ReleaseWake)
    /\ [][guard = "release_task" => guard' \in {"release_task", "free"}]_vars

\* With no sink stored the startup block, a press and a release have all
\* run: nothing was written and the release task sleeps.
C10_Witness ==
    /\ daemon_stdin = "None"
    /\ worker = "alive"
    /\ startup = "done"
    /\ guard = "release_task"
    /\ CmdLog = <<>>
    /\ UiLog = <<Ui("recording_started", <<>>), Ui("recording_stopped", <<"duration">>)>>

----------------------------------------------------------------------------
\* The worker was spawned; start_daemon failed.
Spawned == worker # "unstarted"
StartupFailed == startup = "done" /\ worker = "unstarted"

\* The command lines and notifications the step appends to the outputs.
Appended == SubSeq(out', Len(out) + 1, Len(out'))

\* C11 (as claimed): on a start that spawned the worker, the startup thread
\* has written exactly one load_model by the time it ends, however the task
\* storing the sink interleaves with it.
C11_LoadModelIssued ==
    (startup = "done" /\ Spawned) => Count(CmdLog, "load_model") = 1

\* C12 (as claimed): the model id of the load_model command is the model of
\* the session's config at the moment the command is written.
C12_LoadModelUsesActiveConfig ==
    [][(LoadStep /\ ~NoWrite) =>
        \A k \in 1..Len(Appended) :
            Appended[k].name = "load_model" => Appended[k].payload = <<config.model>>]_vars

\* C13 (as claimed): after start_daemon failed the session stays Idle with
\* no sink and model_loaded false, no reader loop runs and no command is
\* written.
C13_StartupFailureDegrades ==
    StartupFailed =>
        /\ ~is_recording
        /\ daemon_stdin = "None"
        /\ ~model_loaded
        /\ reader = "unstarted"
        /\ CmdLog = <<>>

\* The worker has written a status line with value model_loaded.
IsModelLoadedLine(l) == l.json /\ l.status = Str("model_loaded")

StatusReported ==
    \/ \E k \in 1..Len(out) : out[k] = Ui("model_ready", <<>>)
    \/ \E k \in 1..Len(stdout_pipe) : IsModelLoadedLine(stdout_pipe[k])

\* C14 (as claimed): model_loaded is true only if the worker has reported
\* model_loaded.
C14_ModelLoadedReflectsReport == model_loaded => StatusReported

\* C15 (as claimed): a step in which a write to the worker fails clears the
\* stored sink.
C15_WriteFailureClearsSink ==
    [][(\E k \in 1..Len(Appended) : Appended[k].kind = "cmd" /\ ~Appended[k].ok)
          => daemon_stdin' = "None"]_vars

\* C16 (as claimed): when the reader loop ends while the session is
\* Recording or Transcribing, the UI is notified and the session is Idle.
C16_WorkerLossSurfaced ==
    [][(reader = "running" /\ reader' = "ended"
          /\ SessionState(is_recording, out) # "Idle") =>
        /\ Len(Filter(out', "ui")) > Len(UiLog)
        /\ SessionState(is_recording', out') = "Idle"]_vars

----------------------------------------------------------------------------
\* The reader takes the first line of the pipe in this step.
ReadStep ==
    reader = "running" /\ stdout_pipe # <<>> /\ stdout_pipe' = Tail(stdout_pipe)

One(b) == IF b THEN 1 ELSE 0

\* C17: for every JSON line the reader takes, the notifications added are,
\* in this order and one per field: audio_level if audio_level is a number,
\* model_ready if status is the string model_loaded, transcription_done with
\* the text and copied/typed (false unless a true boolean) if text is a
\* string, transcription_done with empty text and the error if error is a
\* string; a line with text and error adds two transcription_done.
C17_PerFieldDecoding ==
    [][(ReadStep /\ Head(stdout_pipe).json) =>
        LET l == Head(stdout_pipe)
            n == Appended
            hasAudio == l.audio_level.t = "num"
            hasReady == l.status = Str("model_loaded")
            hasText == l.text.t = "str"
            hasError == l.error.t = "str"
            flag(j) == IF j = Bool("true") THEN "true" ELSE "false"
            iReady == One(hasAudio) + 1
            iText == One(hasAudio) + One(hasReady) + 1
            iError == One(hasAudio) + One(hasReady) + One(hasText) + 1
        IN /\ SubSeq(out', 1, Len(out)) = out
           /\ Len(n) = One(hasAudio) + One(hasReady) + One(hasText) + One(hasError)
           /\ hasAudio => n[1] = Ui("audio_level", <<l.audio_level.v>>)
           /\ hasReady => n[iReady] = Ui("model_ready", <<>>)
           /\ hasText => n[iText] = Ui("transcription_done",
                                       <<"text", l.text.v, flag(l.copied), flag(l.typed)>>)
           /\ hasError => n[iError] = Ui("transcription_done",
                                         <<"text", "", "error", l.error.v>>)]_vars

\* Two lines were read, one of them with text and error: it gave two
\* transcription_done, the second with the error.
C17_Witness ==
    /\ lines_emitted = 2
    /\ stdout_pipe = <<>>
    /\ \E k \in 1..(Len(out) - 1) :
          /\ out[k] = Ui("transcription_done", <<"text", "hello", "true", "false">>)
          /\ out[k + 1] = Ui("transcription_done", <<"text", "", "error", "no speech">>)

\* C18: when the reader takes a line that is not JSON, or a JSON line in
\* which every recognized field is missing or of the wrong type, no
\* notification is added, the session is unchanged, and the loop goes on to
\* the next line.
C18_MalformedTolerated ==
    [][(ReadStep /\ Malformed(Head(stdout_pipe))) =>
        /\ out' = out
        /\ session' = session
        /\ reader' = "running"]_vars

\* A malformed line was read first and the line after it was still handled.
C18_Witness ==
    /\ skipped = 1
    /\ lines_emitted = 2
    /\ stdout_pipe = <<>>
    /\ reader = "running"
    /\ Len(out) = 1

\* C19 (as claimed): a press edge whose task is waiting for the guard is
\* never kept waiting by a handler that sleeps.
C19_PressNotBlocked ==
    \A i \in 1..Len(pending) : pending[i] = "press" => ENABLED PressHandler(i)

\* C20: the worker is spawned at most once, by the startup thread, and the
\* reader loop is started at most once, with it; once the worker is dead or
\* the loop has ended, no step starts either again.
C20_NoRestart ==
    [][/\ worker' # worker =>
            \/ worker = "unstarted" /\ worker' = "alive" /\ startup = "init"
            \/ worker = "alive" /\ worker' = "dead"
       /\ reader' # reader =>
            \/ reader = "unstarted" /\ reader' = "running" /\ worker = "unstarted"
            \/ reader = "running" /\ reader' = "ended"]_vars

\* The worker died and the loop ended; a command was written to the dead
\* worker, a recording was begun and ended, and a config was saved.
C20_Witness ==
    /\ worker = "dead"
    /\ reader = "ended"
    /\ pending = <<>>
    /\ delivered >= 2
    /\ config = ConfigSaved
    /\ \E k \in 1..Len(out) : out[k].kind = "cmd" /\ ~out[k].ok

----------------------------------------------------------------------------
\* The entries of a log with one of two names, in order.
RECURSIVE Named(_, _, _)
Named(seq, a, b) ==
    IF seq = <<>> THEN <<>>
    ELSE (IF Head(seq).name \in {a, b} THEN <<Head(seq)>> ELSE <<>>)
           \o Named(Tail(seq), a, b)

\* The entries named a and b alternate, beginning with a.
Alternate(seq, a, b) ==
    LET s == Named(seq, a, b)
    IN \A k \in 1..Len(s) : s[k].name = (IF k % 2 = 1 THEN a ELSE b)

\* The commands that reached the worker.
RECURSIVE Written(_)
Written(seq) ==
    IF seq = <<>> THEN <<>>
    ELSE (IF Head(seq).kind = "cmd" /\ Head(seq).ok THEN <<Head(seq)>> ELSE <<>>)
           \o Written(Tail(seq))

\* C21 (as claimed): recording_start is present exactly when is_recording
\* is true.
C21_StartTracksRecording == (recording_start = "Some") <=> is_recording

\* C22 (as claimed): among the commands written to the worker,
\* start_recording and stop_and_transcribe alternate, beginning with
\* start_recording.
C22_CommandPairing ==
    Alternate(Written(out), "start_recording", "stop_and_transcribe")

\* C23: the notifications recording_started and recording_stopped alternate,
\* beginning with recording_started, and there is one more recording_started
\* than recording_stopped when is_recording is true, as many otherwise.
C23_NotificationPairing ==
    /\ Alternate(UiLog, "recording_started", "recording_stopped")
    /\ Count(out, "recording_started") =
           Count(out, "recording_stopped") + One(is_recording)

\* Two recordings were begun and the first was ended; no handler is left.
C23_Witness ==
    /\ pending = <<>>
    /\ guard = "free"
    /\ is_recording
    /\ Count(out, "recording_started") = 2
    /\ Count(out, "recording_stopped") = 1

\* The release task returns after its sleep.
WakeStep == guard = "release_task" /\ guard' = "free"

\* C24: a release handled while recording sets is_recording false and emits
\* recording_stopped; with a sink stored it then emits transcription_started
\* and attempts one stop_and_transcribe with the config's output mode, and
\* nothing else; with no sink it emits and writes nothing more, and the
\* overlay is hidden when the handler returns.
C24_ReleaseOutputs ==
    [][/\ (ReleaseStep /\ is_recording) =>
            /\ ~is_recording'
            /\ SubSeq(out', 1, Len(out)) = out
            /\ Appended[1] = Ui("recording_stopped", <<"duration">>)
            /\ IF daemon_stdin = "Some"
                 THEN /\ Len(Appended) = 3
                      /\ Appended[2] = Ui("transcription_started", <<>>)
                      /\ Appended[3].kind = "cmd"
                      /\ Appended[3].name = "stop_and_transcribe"
                      /\ Appended[3].payload = <<config.output_mode>>
                      /\ guard' = "free"
                 ELSE /\ Len(Appended) = 1
                      /\ guard' = "release_task"
       /\ WakeStep => out' = out /\ ~overlay' /\ session' = session]_vars

\* A recording was ended with a sink stored after the config was saved: the
\* three outputs of the handler are the last ones, with the saved output mode.
C24_Witness ==
    /\ ~is_recording
    /\ Len(out) >= 3
    /\ out[Len(out) - 2] = Ui("recording_stopped", <<"duration">>)
    /\ out[Len(out) - 1] = Ui("transcription_started", <<>>)
    /\ out[Len(out)] = Cmd("stop_and_transcribe", ConfigSaved.output_mode, TRUE)

====
